---------------------------- MODULE Spec2Model ----------------------------
(***************************************************************************)
(* Model of the speech bot: the voice pipeline of                          *)
(* src/src/voice_service.py (download_and_transcribe, transcribe_audio,    *)
(* preprocess_audio, split_audio_into_chunks, split_text,                  *)
(* cleanup_temp_files), the bootstrap of src/src/bot.py and the handlers   *)
(* of src/src/bot.py over the tables of src/src/database.py, with          *)
(* src/src/commands.py and src/src/conversation.py.                        *)
(*                                                                         *)
(* Spec          the audio pipeline for one message.                       *)
(* SpecConc      two messages handled by coroutines of one event loop over *)
(*               a shared temp directory.                                  *)
(* SpecBoot      main: the purge of the temp directory, then polling, then *)
(*               one message.                                              *)
(* SpecBot       commands and messages of two users over the tables, the   *)
(*               replies sent and the calls of the chat service.           *)
(* SpecText      split_text applied to run-length encoded texts.           *)
(* SpecTextFair  the same with the fairness of a function that runs to its *)
(*               return.                                                   *)
(*                                                                         *)
(* Environment (not in the repository): the audio codec (pydub), the       *)
(* remote transcription and chat services and the bot runtime.  Their      *)
(* outcomes are choices of the model: a decode may fail, an encode after   *)
(* the output file was created, a remote call may raise, a deletion may    *)
(* fail.  A coroutine gives up the event loop only at an await;            *)
(* transcribe_audio has none, download_and_transcribe has one              *)
(* (file.download_to_drive), during which the runtime writes the file.     *)
(***************************************************************************)
EXTENDS Integers, Sequences, FiniteSets, TLC

VARIABLES
    fs,             \* temp directory: file name -> content
    pc,             \* per message: position of its handler
    running,        \* the message whose coroutine holds the event loop, or NoMsg
    fname,          \* per message: file_name given to download_and_transcribe
    origAudio,      \* per message: the audio the platform holds for it
    processed_path, \* transcribe_audio local
    chunk_files,    \* transcribe_audio local
    transcriptions, \* transcribe_audio local
    idx,            \* transcribe_audio local: position of the chunk loop
    result,         \* value transcribe_audio returns
    escaped,        \* an exception left transcribe_audio
    calls,          \* per message: contents sent to the remote service, in order
    faults,         \* per message: environment failures injected into its call
    ret,            \* per message: value download_and_transcribe returned
    passes,         \* per message: the passes of preprocess_audio, in order
    text,           \* split_text: the input text
    remaining_text, \* split_text local
    parts,          \* split_text local `chunks`, the returned list
    chunk_text,     \* split_text local: the window of the last pass
    split_point,    \* split_text local: the split point of the last pass
    tpc,            \* split_text: position
    boot,           \* main: "start", "cleaned" (cleanup_temp_files returned), "polling"
    purged,         \* cleanup_temp_files has been called and has returned
    cleanupFault,   \* os.listdir or an os.remove of cleanup_temp_files raised
    dirs,           \* temp directory: names of its subdirectories
    removed,        \* the files cleanup_temp_files removed
    mode,           \* users table: per user, no row or the row's mode column
    switched,       \* per user: the last mode command handled for the user
    waiting,        \* per user: a voice/audio handler suspended at its awaits
    handled,        \* the messages answered: who, what, and the mode read for it
    convo,          \* conversations table: per user, its rows in insertion order
    cmd_history,    \* command_history table: per user, its rows in insertion order
    chat_calls,     \* per user: the calls of the chat service for the user, in order
    replies,        \* per user: the replies sent to the user's chat, in order
    seen,           \* per user: the number of updates received from the user
    stage,          \* per user: where its voice/audio handler is suspended
    utter,          \* per user: the update its voice/audio handler is handling
    updates         \* number of updates dispatched to handlers

pipeVars == <<fs, pc, running, fname, origAudio, processed_path, chunk_files,
              transcriptions, idx, result, escaped, calls, faults, ret, passes>>
textVars == <<text, remaining_text, parts, chunk_text, split_point, tpc>>
bootVars == <<boot, purged, cleanupFault, dirs, removed>>
botVars == <<mode, switched, waiting, handled, convo, cmd_history, chat_calls,
             replies, seen, stage, utter, updates>>
vars == <<pipeVars, textVars, bootVars, botVars>>

----------------------------------------------------------------------------
(* Program constants *)

MAX_AUDIO_SIZE_MB == 25
LARGE_FILE_MB == 50
ESCALATE_MB == 18
CHUNK_DURATION_MS == 300000
BYTES_PER_MB == 1048576
NORMAL_SPEED == 2
AGGRESSIVE_SPEED == 3

max_text_length == 4000
SPACE_MARGIN == 200

(* Bounds of the model *)

MaxWindows == 3
MaxRuns == 3
MaxCuts == 3
MaxFairRuns == 2
MaxUpdates == 3

Msgs == {"m1", "m2"}
NoMsg == "none"
Users == {"u1", "u2"}
NoRow == "norow"

\* os.path.getsize(p) / (1024 * 1024) > mb
SizeOverMB(bytes, mb) == bytes > mb * BYTES_PER_MB

\* Sizes and durations the environment may produce: both sides of each threshold.
OrigSizes == {MAX_AUDIO_SIZE_MB * BYTES_PER_MB, MAX_AUDIO_SIZE_MB * BYTES_PER_MB + 1,
              LARGE_FILE_MB * BYTES_PER_MB, LARGE_FILE_MB * BYTES_PER_MB + 1}
EncodedSizes == {ESCALATE_MB * BYTES_PER_MB, ESCALATE_MB * BYTES_PER_MB + 1,
                 MAX_AUDIO_SIZE_MB * BYTES_PER_MB + 1}
ChunkSmall == MAX_AUDIO_SIZE_MB * BYTES_PER_MB
ChunkBig == MAX_AUDIO_SIZE_MB * BYTES_PER_MB + 1
Durations == {k * CHUNK_DURATION_MS : k \in 0..MaxWindows}
                 \cup {MaxWindows * CHUNK_DURATION_MS + 1}

\* File names are sequences of name parts; all files live in TEMP_DIR.
InputNames == {<<"a">>, <<"b">>, <<"processed_", "a">>}

\* Inputs of the two-message specification: an original over the ceiling, longer
\* than one window.
ConcSizes == {MAX_AUDIO_SIZE_MB * BYTES_PER_MB + 1}
ConcDurations == {CHUNK_DURATION_MS + 1}

OrdStr(i) == CASE i = 0 -> "0" [] i = 1 -> "1" [] i = 2 -> "2" [] i = 3 -> "3"
               [] i = 4 -> "4" [] i = 5 -> "5" [] i = 6 -> "6" [] OTHER -> "n"

\* os.path.join(TEMP_DIR, f"processed_{os.path.basename(audio_file_path)}")
ProcessedPath(p) == <<"processed_">> \o p

\* os.path.join(TEMP_DIR, f"chunk_{i//chunk_duration_ms}_{os.path.basename(audio_path)}")
ChunkPath(i, p) == <<"chunk_", OrdStr(i \div CHUNK_DURATION_MS)>> \o p

Exists(f, p) == p \in DOMAIN f
WriteFile(f, p, c) == [q \in DOMAIN f \cup {p} |-> IF q = p THEN c ELSE f[q]]
RemoveFile(f, p) == [q \in DOMAIN f \ {p} |-> f[q]]

\* Content of a file: whose audio, byte size, the stretch [lo, hi) of the timeline.
Audio(m, size, lo, hi) == [audio |-> m, size |-> size, lo |-> lo, hi |-> hi]
EmptyFile == Audio("", 0, 0, 0)
Duration(c) == c.hi - c.lo

\* The remote service's text for a content: identifies the audio it heard.
Token(c) == [audio |-> c.audio, lo |-> c.lo, hi |-> c.hi]
Space == [audio |-> " ", lo |-> 0, hi |-> 0]
None == [isNone |-> TRUE, text |-> <<>>]
Some(t) == [isNone |-> FALSE, text |-> t]

\* " ".join(transcriptions)
RECURSIVE Join(_)
Join(ts) == IF Len(ts) = 0 THEN <<>>
            ELSE IF Len(ts) = 1 THEN <<ts[1]>>
            ELSE <<ts[1], Space>> \o Join(Tail(ts))


NoPath == <<>>
Oracle == [dec : BOOLEAN, enc : BOOLEAN, size : EncodedSizes]

----------------------------------------------------------------------------
(* preprocess_audio *)

\* One encode pass, and the retry in aggressive mode when a normal-mode output
\* is over the threshold.  env holds the environment's outcome for each pass:
\* dec (AudioSegment.from_file succeeds), enc (export succeeds), size (bytes of
\* the exported file).  A failed export leaves the output file it had opened.
\* The retry taken also at exactly the threshold.
Escalates_geq(size, aggressive_compress) ==
    size >= ESCALATE_MB * BYTES_PER_MB /\ ~aggressive_compress

\* Line 67: if processed_size_mb > 18 and not aggressive_compress
Escalates(size, aggressive_compress) ==
    SizeOverMB(size, ESCALATE_MB) /\ ~aggressive_compress

\* The record of one pass: its mode, whether it exported, the exported size.
Pass(aggressive_compress, ok, size) ==
    [aggressive |-> aggressive_compress, ok |-> ok, size |-> size]

RECURSIVE preprocess_audio(_, _, _, _, _)
preprocess_audio(f, input_path, output_path, aggressive_compress, env) ==
    LET e == Head(env) IN
    IF ~Exists(f, input_path) \/ ~e.dec
    THEN [ok |-> FALSE, fs |-> f, passes |-> <<Pass(aggressive_compress, FALSE, 0)>>]
    ELSE IF ~e.enc
    THEN [ok |-> FALSE, fs |-> WriteFile(f, output_path, EmptyFile),
          passes |-> <<Pass(aggressive_compress, FALSE, 0)>>]
    ELSE LET src == f[input_path]
             speed == IF aggressive_compress THEN AGGRESSIVE_SPEED ELSE NORMAL_SPEED
             out == Audio(src.audio, e.size, src.lo \div speed, src.hi \div speed)
             f2 == WriteFile(f, output_path, out)
             this == Pass(aggressive_compress, TRUE, f2[output_path].size)
         IN IF Escalates(f2[output_path].size, aggressive_compress)
            THEN LET r == preprocess_audio(f2, input_path, output_path, TRUE, Tail(env))
                 IN [r EXCEPT !.passes = <<this>> \o @]
            ELSE [ok |-> TRUE, fs |-> f2, passes |-> <<this>>]

----------------------------------------------------------------------------
(* split_audio_into_chunks *)

\* A range that also yields an offset equal to stop.
RECURSIVE Range_inclusive(_, _, _)
Range_inclusive(start, stop, step) ==
    IF start > stop THEN <<>>
    ELSE <<start>> \o Range_inclusive(start + step, stop, step)

\* range(start, stop, step)
RECURSIVE Range(_, _, _)
Range(start, stop, step) ==
    IF start >= stop THEN <<>> ELSE <<start>> \o Range(start + step, stop, step)

Min(a, b) == IF a <= b THEN a ELSE b

\* An except clause that returns the chunks exported before the error.
SplitErrorResult_partial(chunks) == chunks

\* What the except clause of split_audio_into_chunks returns.
SplitErrorResult(chunks) == <<>>

\* The loop body for the offsets offs[k..]: slice, name, export, append.
\* env.failAt is the offset whose export fails (-1: none), env.big the offsets
\* whose exported chunk is larger than the remote ceiling.
RECURSIVE ExportChunks(_, _, _, _, _, _)
ExportChunks(f, audio_path, src, offs, chunks, env) ==
    IF offs = <<>> THEN [chunks |-> chunks, fs |-> f]
    ELSE LET i == Head(offs)
             chunk == Audio(src.audio,
                            IF i \in env.big THEN ChunkBig ELSE ChunkSmall,
                            src.lo + i,
                            Min(src.lo + i + CHUNK_DURATION_MS, src.hi))
             chunk_path == ChunkPath(i, audio_path)
         IN IF env.failAt = i
            THEN [chunks |-> SplitErrorResult(chunks),
                  fs |-> WriteFile(f, chunk_path, EmptyFile)]
            ELSE ExportChunks(WriteFile(f, chunk_path, chunk), audio_path, src,
                              Tail(offs), Append(chunks, chunk_path), env)

split_audio_into_chunks(f, audio_path, env) ==
    IF ~Exists(f, audio_path) \/ ~env.dec
    THEN [chunks |-> SplitErrorResult(<<>>), fs |-> f]
    ELSE ExportChunks(f, audio_path, f[audio_path],
                      Range(0, Duration(f[audio_path]), CHUNK_DURATION_MS), <<>>, env)

\* Environments of one split: the offsets of the longest audio of the model.
AllOffsets == {k * CHUNK_DURATION_MS : k \in 0..MaxWindows}
SplitOracle == [dec : BOOLEAN, failAt : {-1} \cup AllOffsets,
                big : {{}, AllOffsets} \cup {{i} : i \in AllOffsets}]

----------------------------------------------------------------------------
(* transcribe_audio *)

\* What the remote service receives: the file opened at `path`.
Sent(path, f) == [path |-> path, content |-> f[path]]

\* One fixed download name for every message.
TempPath_fixed(file_name) == <<"a">>

\* Line 220: temp_path = os.path.join(TEMP_DIR, f"{file_name}")
TempPath(file_name) == file_name

\* No fallback to the original when compaction fails.
WorkingAsset_nofallback(ok, processed, audio_file_path) == processed

\* Lines 148-150: the working asset after compaction.
WorkingAsset(ok, processed, audio_file_path) ==
    IF ok THEN processed ELSE audio_file_path

\* Aggressive mode also at exactly the threshold.
Aggressive_geq(size) == size >= LARGE_FILE_MB * BYTES_PER_MB

\* aggressive = original_size_mb > 50
Aggressive(size) == SizeOverMB(size, LARGE_FILE_MB)

\* The comparison with >= in place of >.
NeedsSplit_geq(size) == size >= MAX_AUDIO_SIZE_MB * BYTES_PER_MB

\* if file_size_mb > MAX_AUDIO_SIZE_MB
NeedsSplit(size) == SizeOverMB(size, MAX_AUDIO_SIZE_MB)

\* An except clause that lets the remote service's errors through.
Catches_notRemote(site) == site # "remote"

\* `except Exception` of transcribe_audio: the failure sites of the try body it catches.
Catches(site) == TRUE

\* os.remove in the finally clauses sits in its own try/except.
RemoveGuarded == TRUE

\* A failure at `site` inside the try body of transcribe_audio.
Raise(m, site) ==
    /\ faults' = [faults EXCEPT ![m] = @ \cup {site}]
    /\ IF Catches(site)
       THEN /\ pc' = [pc EXCEPT ![m] = "t_except"]
            /\ UNCHANGED escaped
       ELSE /\ pc' = [pc EXCEPT ![m] = "t_finally"]
            /\ escaped' = [escaped EXCEPT ![m] = TRUE]


\* temp_path of download_and_transcribe, the argument of transcribe_audio.
temp_path(m) == TempPath(fname[m])

\* The locals of a call that has not started or has returned.
ResetLocals(m) ==
    /\ processed_path' = [processed_path EXCEPT ![m] = NoPath]
    /\ chunk_files' = [chunk_files EXCEPT ![m] = <<>>]
    /\ transcriptions' = [transcriptions EXCEPT ![m] = <<>>]
    /\ idx' = [idx EXCEPT ![m] = 0]
    /\ result' = [result EXCEPT ![m] = None]
    /\ escaped' = [escaped EXCEPT ![m] = FALSE]
    /\ calls' = [calls EXCEPT ![m] = <<>>]
    /\ passes' = [passes EXCEPT ![m] = <<>>]

\* Lines 232-237: the finally clause of download_and_transcribe removes temp_path
\* if it exists; rmok is the outcome of os.remove, whose failure is caught.  Of
\* the failures of the call only those of deletions are kept after it returns.
RemoveInput(m, rmok) ==
    /\ fs' = IF Exists(fs, temp_path(m)) /\ rmok
             THEN RemoveFile(fs, temp_path(m)) ELSE fs
    /\ faults' = [faults EXCEPT ![m] =
                     (@ \cap {"remove"})
                        \cup IF Exists(fs, temp_path(m)) /\ ~rmok
                             THEN {"remove"} ELSE {}]

\* At most one deletion of a finally clause fails.
RemoveFailures(targets) == {{}} \cup {{t} : t \in targets}

RECURSIVE RemoveAll(_, _)
RemoveAll(f, targets) ==
    IF targets = {} THEN f
    ELSE LET t == CHOOSE x \in targets : TRUE
         IN RemoveAll(RemoveFile(f, t), targets \ {t})

----------------------------------------------------------------------------
(* download_and_transcribe, up to its await *)

\* A handler starts: handle_voice / handle_audio reach
\* `await file.download_to_drive(temp_path)` with temp_path = TEMP_DIR/file_name.
Arrive(m) ==
    /\ pc[m] = "new" /\ running = NoMsg
    /\ pc' = [pc EXCEPT ![m] = "dl_wait"]
    /\ UNCHANGED <<fs, running, fname, origAudio, passes, processed_path, chunk_files,
                   transcriptions, idx, result, escaped, calls, faults, ret>>
    /\ UNCHANGED <<textVars, bootVars, botVars>>

\* The runtime writes the downloaded bytes to temp_path.
DownloadWrite(m) ==
    /\ UNCHANGED <<textVars, bootVars, botVars>>
    /\ pc[m] = "dl_wait" /\ running = NoMsg
    /\ fs' = WriteFile(fs, temp_path(m), origAudio[m])
    /\ pc' = [pc EXCEPT ![m] = "dl_ready"]
    /\ UNCHANGED <<running, fname, origAudio, passes, processed_path, chunk_files,
                   transcriptions, idx, result, escaped, calls, faults, ret>>

\* The download raises: the except clause returns None, the finally clause
\* removes temp_path if a file of that name exists.
DownloadError(m) ==
    /\ UNCHANGED <<textVars, bootVars, botVars>>
    /\ pc[m] = "dl_wait" /\ running = NoMsg
    /\ \E rmok \in BOOLEAN : RemoveInput(m, rmok)
    /\ ret' = [ret EXCEPT ![m] = None]
    /\ pc' = [pc EXCEPT ![m] = "handled"]
    /\ UNCHANGED <<running, fname, origAudio, passes, processed_path, chunk_files,
                   transcriptions, idx, result, escaped, calls>>

\* The coroutine is resumed and calls transcribe_audio(temp_path): lines 138-139.
Resume(m) ==
    /\ UNCHANGED <<textVars, bootVars, botVars>>
    /\ pc[m] = "dl_ready" /\ running = NoMsg
    /\ running' = m
    /\ pc' = [pc EXCEPT ![m] = "t_start"]
    /\ UNCHANGED <<fs, fname, origAudio, passes, processed_path, chunk_files,
                   transcriptions, idx, result, escaped, calls, faults, ret>>

----------------------------------------------------------------------------
(* transcribe_audio, lines 140-215; it never awaits *)

\* Lines 142-150: size of the original, compaction, fallback to the original.
Compact(m) ==
    /\ UNCHANGED <<textVars, bootVars, botVars>>
    /\ pc[m] = "t_start" /\ running = m
    /\ IF ~Exists(fs, temp_path(m))
       THEN /\ Raise(m, "getsize")
            /\ UNCHANGED <<fs, processed_path, passes>>
       ELSE \E e1 \in Oracle, e2 \in Oracle :
               LET out == ProcessedPath(temp_path(m))
                   r == preprocess_audio(fs, temp_path(m), out,
                                         Aggressive(fs[temp_path(m)].size),
                                         <<e1, e2>>)
               IN /\ fs' = r.fs
                  /\ passes' = [passes EXCEPT ![m] = r.passes]
                  /\ processed_path' =
                        [processed_path EXCEPT ![m] =
                            WorkingAsset(r.ok, out, temp_path(m))]
                  /\ faults' = [faults EXCEPT ![m] =
                                   IF r.ok THEN @ ELSE @ \cup {"preprocess"}]
                  /\ pc' = [pc EXCEPT ![m] = "t_size"]
                  /\ UNCHANGED escaped
    /\ UNCHANGED <<running, fname, origAudio, chunk_files, transcriptions, idx,
                   result, calls, ret>>

\* Lines 152-155: the size of the working asset chooses the path.
SizeCheck(m) ==
    /\ UNCHANGED <<textVars, bootVars, botVars>>
    /\ pc[m] = "t_size" /\ running = m
    /\ IF ~Exists(fs, processed_path[m])
       THEN Raise(m, "getsize")
       ELSE /\ pc' = [pc EXCEPT ![m] =
                        IF NeedsSplit(fs[processed_path[m]].size)
                        THEN "t_split" ELSE "t_direct"]
            /\ UNCHANGED <<faults, escaped>>
    /\ UNCHANGED <<fs, running, fname, origAudio, passes, processed_path, chunk_files,
                   transcriptions, idx, result, calls, ret>>

\* Lines 157-164: decomposition; no chunks ends the call with None.
Split(m) ==
    /\ UNCHANGED <<textVars, bootVars, botVars>>
    /\ pc[m] = "t_split" /\ running = m
    /\ \E env \in SplitOracle :
          LET r == split_audio_into_chunks(fs, processed_path[m], env)
              failed == ~env.dec \/ env.failAt \in
                           {i \in AllOffsets : i < Duration(fs[processed_path[m]])}
          IN /\ fs' = r.fs
             /\ chunk_files' = [chunk_files EXCEPT ![m] = r.chunks]
             /\ faults' = [faults EXCEPT ![m] = IF failed THEN @ \cup {"split"} ELSE @]
             /\ IF r.chunks = <<>>
                THEN /\ result' = [result EXCEPT ![m] = None]
                     /\ pc' = [pc EXCEPT ![m] = "t_finally"]
                     /\ UNCHANGED <<transcriptions, idx>>
                ELSE /\ transcriptions' = [transcriptions EXCEPT ![m] = <<>>]
                     /\ idx' = [idx EXCEPT ![m] = 1]
                     /\ pc' = [pc EXCEPT ![m] = "t_loop"]
                     /\ UNCHANGED result
    /\ UNCHANGED <<running, fname, origAudio, passes, processed_path, escaped, calls, ret>>

\* A chunk loop that sends every chunk.
ChunkTooLarge_never(size) == FALSE

\* Line 169: if chunk_size_mb > MAX_AUDIO_SIZE_MB
ChunkTooLarge(size) == SizeOverMB(size, MAX_AUDIO_SIZE_MB)

\* A join that is returned even when nothing was transcribed.
Assemble_always(ts) == Some(Join(ts))

\* Line 184: " ".join(transcriptions) if transcriptions else None
Assemble(ts) == IF ts # <<>> THEN Some(Join(ts)) ELSE None

\* A remote call of the chunk loop raised (or the chunk could not be opened).
ChunkFailure(m, site) == Raise(m, site)

\* Lines 165-184: one iteration of the chunk loop up to its remote call, or the
\* end of the loop.
ChunkStep(m) ==
    /\ UNCHANGED <<textVars, bootVars, botVars>>
    /\ pc[m] = "t_loop" /\ running = m
    /\ IF idx[m] > Len(chunk_files[m])
       THEN /\ result' = [result EXCEPT ![m] = Assemble(transcriptions[m])]
            /\ pc' = [pc EXCEPT ![m] = "t_finally"]
            /\ UNCHANGED <<transcriptions, idx, calls, faults, escaped>>
       ELSE LET chunk_path == chunk_files[m][idx[m]] IN
            IF ~Exists(fs, chunk_path)
            THEN /\ Raise(m, "getsize")
                 /\ UNCHANGED <<transcriptions, idx, calls, result>>
            ELSE IF ChunkTooLarge(fs[chunk_path].size)
            THEN /\ idx' = [idx EXCEPT ![m] = @ + 1]
                 /\ UNCHANGED <<pc, transcriptions, calls, result, faults, escaped>>
            ELSE \/ /\ calls' = [calls EXCEPT ![m] = Append(@, Sent(chunk_path, fs))]
                    /\ pc' = [pc EXCEPT ![m] = "t_call"]
                    /\ UNCHANGED <<transcriptions, idx, result, faults, escaped>>
                 \/ /\ ChunkFailure(m, "open")
                    /\ UNCHANGED <<transcriptions, idx, result, calls>>
    /\ UNCHANGED <<fs, running, fname, origAudio, passes, processed_path, chunk_files, ret>>

\* Lines 186-196: the remote call on the whole working asset is issued.
Direct(m) ==
    /\ UNCHANGED <<textVars, bootVars, botVars>>
    /\ pc[m] = "t_direct" /\ running = m
    /\ \/ /\ calls' = [calls EXCEPT ![m] = Append(@, Sent(processed_path[m], fs))]
          /\ pc' = [pc EXCEPT ![m] = "t_call"]
          /\ UNCHANGED <<result, faults, escaped>>
       \/ /\ Raise(m, "open")
          /\ UNCHANGED <<result, calls>>
    /\ UNCHANGED <<fs, running, fname, origAudio, passes, processed_path, chunk_files,
                   transcriptions, idx, ret>>

\* Lines 174-181 and 189-196: self.client.audio.transcriptions.create returns
\* a text or raises.  The call is made on the coroutine's own stack, so the
\* coroutine holds the event loop from the request to the response.
RemoteReturn(m) ==
    /\ UNCHANGED <<textVars, bootVars, botVars>>
    /\ pc[m] = "t_call" /\ running = m
    /\ LET sent == calls[m][Len(calls[m])] IN
       IF chunk_files[m] # <<>>
       THEN \/ /\ transcriptions' = [transcriptions EXCEPT ![m] =
                                        Append(@, Token(sent.content))]
               /\ idx' = [idx EXCEPT ![m] = @ + 1]
               /\ pc' = [pc EXCEPT ![m] = "t_loop"]
               /\ UNCHANGED <<result, faults, escaped>>
            \/ /\ ChunkFailure(m, "remote")
               /\ UNCHANGED <<transcriptions, idx, result>>
       ELSE \/ /\ result' = [result EXCEPT ![m] = Some(<<Token(sent.content)>>)]
               /\ pc' = [pc EXCEPT ![m] = "t_finally"]
               /\ UNCHANGED <<transcriptions, idx, faults, escaped>>
            \/ /\ Raise(m, "remote")
               /\ UNCHANGED <<transcriptions, idx, result>>
    /\ UNCHANGED <<fs, running, fname, origAudio, passes, processed_path, chunk_files,
                   calls, ret>>

\* Lines 198-200: except Exception: return None.
Except(m) ==
    /\ UNCHANGED <<textVars, bootVars, botVars>>
    /\ pc[m] = "t_except" /\ running = m
    /\ result' = [result EXCEPT ![m] = None]
    /\ pc' = [pc EXCEPT ![m] = "t_finally"]
    /\ UNCHANGED <<fs, running, fname, origAudio, passes, processed_path, chunk_files,
                   transcriptions, idx, escaped, calls, faults, ret>>

\* Lines 203-208: the chunk files the finally clause removes.
ChunkTargets(f, chunks) == {chunks[k] : k \in 1..Len(chunks)} \cap DOMAIN f

\* The cleanup without the `processed_path != audio_file_path` test.
ProcessedTargets_any(f, processed, audio_file_path) ==
    IF processed # NoPath /\ Exists(f, processed) THEN {processed} ELSE {}

\* Lines 211-215: the processed file, if it exists and is not the input.
ProcessedTargets(f, processed, audio_file_path) ==
    IF processed # NoPath /\ processed # audio_file_path /\ Exists(f, processed)
    THEN {processed} ELSE {}

\* Lines 201-215: the finally clause of transcribe_audio.
Finally(m) ==
    /\ UNCHANGED <<textVars, bootVars, botVars>>
    /\ pc[m] = "t_finally" /\ running = m
    /\ LET targets == ChunkTargets(fs, chunk_files[m])
                        \cup ProcessedTargets(fs, processed_path[m], temp_path(m))
       IN \E failing \in RemoveFailures(targets) :
             /\ fs' = RemoveAll(fs, targets \ failing)
             /\ faults' = [faults EXCEPT ![m] =
                              IF failing = {} THEN @ ELSE @ \cup {"remove"}]
             /\ escaped' = [escaped EXCEPT ![m] =
                               @ \/ (failing # {} /\ ~RemoveGuarded)]
             /\ pc' = [pc EXCEPT ![m] =
                          IF escaped'[m] THEN "t_raised" ELSE "t_ret"]
    /\ UNCHANGED <<running, fname, origAudio, passes, processed_path, chunk_files,
                   transcriptions, idx, result, calls, ret>>

----------------------------------------------------------------------------
(* download_and_transcribe, after transcribe_audio: lines 224-237 *)

Return(m) ==
    /\ UNCHANGED <<textVars, bootVars, botVars>>
    /\ pc[m] \in {"t_ret", "t_raised"} /\ running = m
    /\ ret' = [ret EXCEPT ![m] = IF pc[m] = "t_raised" THEN None ELSE result[m]]
    /\ \E rmok \in BOOLEAN : RemoveInput(m, rmok)
    /\ running' = NoMsg
    /\ pc' = [pc EXCEPT ![m] = "handled"]
    /\ ResetLocals(m)
    /\ UNCHANGED <<fname, origAudio>>

----------------------------------------------------------------------------

\* The locals of every handler before it runs.
PipeStart ==
    /\ fs = <<>>
    /\ running = NoMsg
    /\ processed_path = [m \in Msgs |-> NoPath]
    /\ chunk_files = [m \in Msgs |-> <<>>]
    /\ transcriptions = [m \in Msgs |-> <<>>]
    /\ idx = [m \in Msgs |-> 0]
    /\ result = [m \in Msgs |-> None]
    /\ escaped = [m \in Msgs |-> FALSE]
    /\ calls = [m \in Msgs |-> <<>>]
    /\ faults = [m \in Msgs |-> {}]
    /\ ret = [m \in Msgs |-> None]
    /\ passes = [m \in Msgs |-> <<>>]

\* One message, any input of the model.
PipeInit ==
    /\ PipeStart
    /\ pc = [m \in Msgs |-> IF m = "m1" THEN "new" ELSE "off"]
    /\ \E n \in InputNames, sz \in OrigSizes, d \in Durations :
          /\ fname = [m \in Msgs |-> IF m = "m1" THEN n ELSE NoPath]
          /\ origAudio = [m \in Msgs |->
                            IF m = "m1" THEN Audio(m, sz, 0, d) ELSE EmptyFile]

\* Two messages in flight, any pair of file names.
ConcInit ==
    /\ PipeStart
    /\ pc = [m \in Msgs |-> "new"]
    /\ \E n \in InputNames : fname = [m \in Msgs |-> IF m = "m1" THEN <<"a">> ELSE n]
    /\ \E sz \in ConcSizes, d \in ConcDurations :
          origAudio = [m \in Msgs |-> Audio(m, sz, 0, d)]

TextIdle ==
    /\ text = <<>>
    /\ remaining_text = <<>>
    /\ parts = <<>>
    /\ chunk_text = <<>>
    /\ split_point = 0
    /\ tpc = "idle"

\* main has purged the temp area and is polling.
BootDone ==
    /\ boot = "polling"
    /\ purged = TRUE
    /\ cleanupFault = FALSE
    /\ dirs = {}
    /\ removed = {}

\* The tables are empty and no update has been dispatched.
BotIdle ==
    /\ mode = [u \in Users |-> NoRow]
    /\ switched = [u \in Users |-> "none"]
    /\ waiting = [u \in Users |-> "none"]
    /\ handled = {}
    /\ convo = [u \in Users |-> <<>>]
    /\ cmd_history = [u \in Users |-> <<>>]
    /\ chat_calls = [u \in Users |-> <<>>]
    /\ replies = [u \in Users |-> <<>>]
    /\ seen = [u \in Users |-> 0]
    /\ stage = [u \in Users |-> "idle"]
    /\ utter = [u \in Users |-> 0]
    /\ updates = 0

Init == PipeInit /\ TextIdle /\ BootDone /\ BotIdle

InitConc == ConcInit /\ TextIdle /\ BootDone /\ BotIdle

Next ==
    \E m \in Msgs :
       \/ Arrive(m)
       \/ DownloadWrite(m)
       \/ DownloadError(m)
       \/ Resume(m)
       \/ Compact(m)
       \/ SizeCheck(m)
       \/ Split(m)
       \/ ChunkStep(m)
       \/ Direct(m)
       \/ RemoteReturn(m)
       \/ Except(m)
       \/ Finally(m)
       \/ Return(m)

Spec == Init /\ [][Next]_vars

SpecConc == InitConc /\ [][Next]_vars

----------------------------------------------------------------------------
(* cleanup_temp_files and main: src/src/voice_service.py 239-247, *)
(* src/src/bot.py 251-276                                          *)

\* What an earlier run of the bot may have left in the temp directory.
LeftoverNames == {<<"old">>, <<"processed_", "a">>, <<"chunk_", "0", "a">>}
DirNames == {<<"sub">>}
Leftover == Audio("old", ChunkSmall, 0, CHUNK_DURATION_MS)

\* os.listdir(TEMP_DIR)
ListDir(f, d) == DOMAIN f \cup d

\* os.path.isfile(file_path)
IsFile(f, p) == p \in DOMAIN f

\* Lines 241-244: the entries of the listing that the loop removes.
CleanupTargets(f, d) == {p \in ListDir(f, d) : IsFile(f, p)}

\* The outcomes of one call: the listing raises; every removal succeeds; or the
\* removal of one file raises after any of the others were removed, and the
\* except clause ends the loop.
cleanup_temp_files(f, d) ==
    LET targets == CleanupTargets(f, d) IN
    {[fs |-> f, removed |-> {}, fault |-> TRUE]}
       \cup {[fs |-> RemoveAll(f, targets), removed |-> targets, fault |-> FALSE]}
       \cup {[fs |-> RemoveAll(f, before), removed |-> before, fault |-> TRUE] :
                before \in UNION {SUBSET (targets \ {x}) : x \in targets}}

\* bot.py 271-274: main calls cleanup_temp_files, which returns.
Cleanup ==
    /\ boot = "start"
    /\ \E o \in cleanup_temp_files(fs, dirs) :
          /\ fs' = o.fs
          /\ removed' = o.removed
          /\ cleanupFault' = o.fault
    /\ purged' = TRUE
    /\ boot' = "cleaned"
    /\ UNCHANGED <<pc, running, fname, origAudio, passes, processed_path, chunk_files,
                   transcriptions, idx, result, escaped, calls, faults, ret>>
    /\ UNCHANGED <<dirs, textVars, botVars>>

\* Polling that starts without waiting for the purge.
PollingMayStart_early(b) == b \in {"start", "cleaned"}

\* bot.py 276: run_polling is the statement after the cleanup.
PollingMayStart(b) == b = "cleaned"

\* bot.py 276: application.run_polling(...)
StartPolling ==
    /\ PollingMayStart(boot)
    /\ boot' = "polling"
    /\ UNCHANGED <<pipeVars, textVars, botVars, purged, cleanupFault, dirs, removed>>

\* The runtime hands a voice or audio update to its handler (bot.py 263-264).
Dispatch(m) ==
    /\ boot = "polling"
    /\ pc[m] = "off" /\ fname[m] # NoPath
    /\ pc' = [pc EXCEPT ![m] = "new"]
    /\ UNCHANGED <<fs, running, fname, origAudio, passes, processed_path, chunk_files,
                   transcriptions, idx, result, escaped, calls, faults, ret>>
    /\ UNCHANGED <<textVars, bootVars, botVars>>

\* The process starts: leftovers in the temp directory, one message to come.
InitBoot ==
    /\ \E S \in SUBSET LeftoverNames : fs = [p \in S |-> Leftover]
    /\ dirs \in SUBSET DirNames
    /\ boot = "start"
    /\ purged = FALSE
    /\ cleanupFault = FALSE
    /\ removed = {}
    /\ running = NoMsg
    /\ pc = [m \in Msgs |-> "off"]
    /\ fname = [m \in Msgs |-> IF m = "m1" THEN <<"a">> ELSE NoPath]
    /\ \E sz \in ConcSizes, d \in ConcDurations :
          origAudio = [m \in Msgs |->
                         IF m = "m1" THEN Audio(m, sz, 0, d) ELSE EmptyFile]
    /\ processed_path = [m \in Msgs |-> NoPath]
    /\ chunk_files = [m \in Msgs |-> <<>>]
    /\ transcriptions = [m \in Msgs |-> <<>>]
    /\ idx = [m \in Msgs |-> 0]
    /\ result = [m \in Msgs |-> None]
    /\ escaped = [m \in Msgs |-> FALSE]
    /\ calls = [m \in Msgs |-> <<>>]
    /\ faults = [m \in Msgs |-> {}]
    /\ ret = [m \in Msgs |-> None]
    /\ passes = [m \in Msgs |-> <<>>]
    /\ TextIdle /\ BotIdle

NextBoot ==
    \/ Cleanup
    \/ StartPolling
    \/ \E m \in Msgs : Dispatch(m)
    \/ Next

SpecBoot == InitBoot /\ [][NextBoot]_vars


----------------------------------------------------------------------------
(* split_text *)

\* A text is a sequence of runs <<c, n>>: the character c repeated n >= 1 times,
\* adjacent runs of different characters.  "\n" stands for the whitespace that
\* str.strip removes and rfind(' ') does not find.
Chars == {"a", ".", "?", " ", "\n"}
RunLens == {1, SPACE_MARGIN, max_text_length \div 2, max_text_length \div 2 + 1,
            max_text_length - SPACE_MARGIN, max_text_length - SPACE_MARGIN + 1}
Texts ==
    UNION {{t \in [1..k -> Chars \X RunLens] :
               \A j \in 1..(k - 1) : t[j][1] # t[j + 1][1]} : k \in 0..MaxRuns}

\* Texts of one run of letters, longer than the limit: whole windows plus a rest.
PlainRests == {0, 1, 50}
PlainTexts ==
    {<< <<"a", k * max_text_length + r>> >> : k \in 1..MaxCuts, r \in PlainRests}

IsSpace(c) == c \in {" ", "\n"}

\* len(t)
RECURSIVE TLen(_)
TLen(t) == IF t = <<>> THEN 0 ELSE t[1][2] + TLen(Tail(t))

\* t[:n]
RECURSIVE Take(_, _)
Take(t, n) ==
    IF n <= 0 \/ t = <<>> THEN <<>>
    ELSE IF t[1][2] <= n THEN <<t[1]>> \o Take(Tail(t), n - t[1][2])
    ELSE << <<t[1][1], n>> >>

\* t[n:]
RECURSIVE Drop(_, _)
Drop(t, n) ==
    IF t = <<>> THEN <<>>
    ELSE IF n <= 0 THEN t
    ELSE IF t[1][2] <= n THEN Drop(Tail(t), n - t[1][2])
    ELSE << <<t[1][1], t[1][2] - n>> >> \o Tail(t)

\* t.rfind(c), for the text t that starts at offset off
RECURSIVE RFindFrom(_, _, _)
RFindFrom(t, c, off) ==
    IF t = <<>> THEN -1
    ELSE LET later == RFindFrom(Tail(t), c, off + t[1][2])
         IN IF later # -1 THEN later
            ELSE IF t[1][1] = c THEN off + t[1][2] - 1
            ELSE -1

RFind(t, c) == RFindFrom(t, c, 0)

\* t.strip()
RECURSIVE LStrip(_)
LStrip(t) == IF t # <<>> /\ IsSpace(t[1][1]) THEN LStrip(Tail(t)) ELSE t

RECURSIVE RStrip(_)
RStrip(t) ==
    IF t # <<>> /\ IsSpace(t[Len(t)][1]) THEN RStrip(SubSeq(t, 1, Len(t) - 1)) ELSE t

Strip(t) == LStrip(RStrip(t))

\* Lines 93-99: the last position of any of the sentence endings, -1 if none.
sentence_endings == <<".", "!", "?">>

RECURSIVE LastSentenceEnd(_, _, _)
LastSentenceEnd(w, endings, last_sentence_end) ==
    IF endings = <<>> THEN last_sentence_end
    ELSE LET pos == RFind(w, Head(endings))
         IN LastSentenceEnd(w, Tail(endings),
                            IF pos > last_sentence_end THEN pos ELSE last_sentence_end)

\* A floor that admits the space at index max_text_length - 200.
SpaceFloor_incl == max_text_length - SPACE_MARGIN - 1

\* Line 107: last_space > self.max_text_length - 200
SpaceFloor == max_text_length - SPACE_MARGIN

\* A fallback that cuts one character before the limit.
HardCut_short == max_text_length - 1

\* Line 111: split_point = self.max_text_length
HardCut == max_text_length

\* A split on the terminator itself.
AfterTerminator_at(last_sentence_end) == last_sentence_end

\* Line 103: split_point = last_sentence_end + 1
AfterTerminator(last_sentence_end) == last_sentence_end + 1

\* Lines 101-111: the split point for a window w of the remaining text.
ChooseSplit(w) ==
    LET last_sentence_end == LastSentenceEnd(w, sentence_endings, -1)
        last_space == RFind(w, " ")
    IN IF last_sentence_end > max_text_length \div 2
       THEN AfterTerminator(last_sentence_end)
       ELSE IF last_space > SpaceFloor THEN last_space
       ELSE HardCut

\* The split point chosen on the whole remaining text instead of its window.
SplitPoint_noWindow(remaining) == ChooseSplit(remaining)

\* Line 90: chunk_text = remaining_text[:self.max_text_length]
Window(remaining) == Take(remaining, max_text_length)

\* Lines 90-111: the window, then the choice.
SplitPoint(remaining) == ChooseSplit(Window(remaining))

\* A short text returned trimmed.
Whole_stripped(t) == <<Strip(t)>>

\* Line 79: return [text]
Whole(t) == <<t>>

\* A part emitted as it was sliced.
Emit_raw(remaining, at) == Take(remaining, at)

\* Line 113: the part emitted for a split point.
Emit(remaining, at) == Strip(Take(remaining, at))

\* A remainder from which nothing is consumed.
Rest_whole(remaining, at) == remaining

\* The remainder taken one character after the split point.
Rest_skip(remaining, at) == Strip(Drop(remaining, at + 1))

\* Line 114: remaining_text = remaining_text[split_point:].strip()
Rest(remaining, at) == Strip(Drop(remaining, at))

\* Lines 78-82: a short text is returned whole, a long one starts the loop.
SplitStart ==
    /\ tpc = "start"
    /\ IF TLen(text) <= max_text_length
       THEN /\ parts' = Whole(text)
            /\ tpc' = "done"
            /\ UNCHANGED remaining_text
       ELSE /\ parts' = <<>>
            /\ remaining_text' = text
            /\ tpc' = "loop"
    /\ UNCHANGED <<text, chunk_text, split_point>>
    /\ UNCHANGED <<pipeVars, bootVars, botVars>>

\* Lines 84-116: one pass of `while remaining_text`, or its end.
SplitStep ==
    /\ tpc = "loop"
    /\ IF remaining_text = <<>>
       THEN /\ tpc' = "done"
            /\ UNCHANGED <<parts, remaining_text, chunk_text, split_point>>
       ELSE IF TLen(remaining_text) <= max_text_length
       THEN /\ parts' = Append(parts, remaining_text)
            /\ tpc' = "done"
            /\ UNCHANGED <<remaining_text, chunk_text, split_point>>
       ELSE \E sp \in {SplitPoint(remaining_text)} :
               /\ chunk_text' = Window(remaining_text)
               /\ split_point' = sp
               /\ parts' = Append(parts, Emit(remaining_text, sp))
               /\ remaining_text' = Rest(remaining_text, sp)
               /\ UNCHANGED tpc
    /\ UNCHANGED text
    /\ UNCHANGED <<pipeVars, bootVars, botVars>>

\* No message: the audio pipeline at rest.
PipeIdle ==
    /\ fs = <<>>
    /\ running = NoMsg
    /\ pc = [m \in Msgs |-> "off"]
    /\ fname = [m \in Msgs |-> NoPath]
    /\ origAudio = [m \in Msgs |-> EmptyFile]
    /\ processed_path = [m \in Msgs |-> NoPath]
    /\ chunk_files = [m \in Msgs |-> <<>>]
    /\ transcriptions = [m \in Msgs |-> <<>>]
    /\ idx = [m \in Msgs |-> 0]
    /\ result = [m \in Msgs |-> None]
    /\ escaped = [m \in Msgs |-> FALSE]
    /\ calls = [m \in Msgs |-> <<>>]
    /\ faults = [m \in Msgs |-> {}]
    /\ ret = [m \in Msgs |-> None]
    /\ passes = [m \in Msgs |-> <<>>]

\* split_text called on any text of the model.
InitText ==
    /\ PipeIdle /\ BootDone /\ BotIdle
    /\ text \in Texts \cup PlainTexts
    /\ remaining_text = <<>>
    /\ parts = <<>>
    /\ chunk_text = <<>>
    /\ split_point = 0
    /\ tpc = "start"

NextText == SplitStart \/ SplitStep

SpecText == InitText /\ [][NextText]_vars

\* The texts of the specification with fairness.
FairTexts == {t \in Texts : Len(t) <= MaxFairRuns} \cup PlainTexts

InitTextFair ==
    /\ PipeIdle /\ BootDone /\ BotIdle
    /\ text \in FairTexts
    /\ remaining_text = <<>>
    /\ parts = <<>>
    /\ chunk_text = <<>>
    /\ split_point = 0
    /\ tpc = "start"

\* split_text is a plain function: once called, it runs until it returns.
SpecTextFair == InitTextFair /\ [][NextText]_vars /\ WF_vars(NextText)

----------------------------------------------------------------------------
(* The tables and the handlers that read and write them:                *)
(* src/src/database.py 71-176; src/src/commands.py 42-150;              *)
(* src/src/conversation.py 17-101; src/src/bot.py 34-241                *)

\* database.py 23: mode TEXT DEFAULT 'rec'
DEFAULT_MODE == "rec"

\* config.py 17
MAX_CONTEXT_MESSAGES == 10

\* database.py 71-78: INSERT OR REPLACE INTO users (user_id, username,
\* first_name, last_name): the user's row is replaced by a new row whose mode
\* column, not among the inserted columns, takes its default.
add_user(tbl, u) == [tbl EXCEPT ![u] = DEFAULT_MODE]

\* database.py 163-169: the row's mode, 'rec' when there is no row.
get_user_mode(tbl, u) == IF tbl[u] = NoRow THEN "rec" ELSE tbl[u]

\* database.py 171-176: UPDATE users SET mode = ? WHERE user_id = ?
set_user_mode(tbl, u, md) == IF tbl[u] = NoRow THEN tbl ELSE [tbl EXCEPT ![u] = md]

\* The content of a row of the conversations table: what the user's update
\* number `id` said, the
\* same as a search query ("Search: ..."), or the chat service's reply to it.
Said(id) == [form |-> "said", msg |-> id]
SearchOf(id) == [form |-> "search", msg |-> id]
ReplyTo(id) == [form |-> "reply", msg |-> id]

\* database.py 80-87: INSERT INTO conversations
add_message(cv, u, role, content, message_type) ==
    [cv EXCEPT ![u] = Append(@, [role |-> role, content |-> content,
                                 type |-> message_type])]

\* database.py 89-108: the last `limit` rows of the user, oldest first.
get_conversation_history(cv, u, limit) ==
    IF Len(cv[u]) <= limit THEN cv[u]
    ELSE SubSeq(cv[u], Len(cv[u]) - limit + 1, Len(cv[u]))

\* database.py 110-115: DELETE FROM conversations WHERE user_id = ?
clear_conversation(cv, u) == [cv EXCEPT ![u] = <<>>]

\* database.py 117-123: INSERT INTO command_history
add_command(ch, u, id, command) ==
    [ch EXCEPT ![u] = Append(@, [msg |-> id, command |-> command])]

\* The tables and the log of calls of the chat service, as one value.
Db == [mode |-> mode, convo |-> convo, cmd_history |-> cmd_history,
       chat_calls |-> chat_calls]

\* conversation.py 27-36: the messages sent to the chat service (without the
\* system message): the history, and the message itself if the history does not
\* end with a user row.
ChatMessages(history, id) ==
    LET messages == [k \in 1..Len(history) |->
                        [role |-> history[k].role, content |-> history[k].content]]
    IN IF messages = <<>> \/ messages[Len(messages)].role # "user"
       THEN Append(messages, [role |-> "user", content |-> Said(id)])
       ELSE messages

\* conversation.py 20: self.db.add_message(user_id, "user", message)
LogUserMessage(cv, u, id) == add_message(cv, u, "user", Said(id), "text")

\* conversation.py 17-68: get_response logs the message, sends the last
\* MAX_CONTEXT_MESSAGES rows to the chat service and logs its reply; when the
\* call raises (ok = FALSE) it returns an apology and logs no reply.
get_response(db, u, id, ok) ==
    LET cv1 == LogUserMessage(db.convo, u, id)
        history == get_conversation_history(cv1, u, MAX_CONTEXT_MESSAGES)
        call == [msg |-> id, user |-> u, messages |-> ChatMessages(history, id)]
    IN [db EXCEPT !.chat_calls = [@ EXCEPT ![u] = Append(@, call)],
                  !.convo = IF ok
                            THEN add_message(cv1, u, "assistant", ReplyTo(id), "text")
                            ELSE cv1]

\* conversation.py 70-101: search_and_respond logs "Search: query", sends the
\* query alone to the chat service and logs its reply.
search_and_respond(db, u, id, ok) ==
    LET cv1 == add_message(db.convo, u, "user", SearchOf(id), "text")
        call == [msg |-> id, user |-> u,
                 messages |-> <<[role |-> "user", content |-> SearchOf(id)]>>]
    IN [db EXCEPT !.chat_calls = [@ EXCEPT ![u] = Append(@, call)],
                  !.convo = IF ok
                            THEN add_message(cv1, u, "assistant", ReplyTo(id), "text")
                            ELSE cv1]

\* The commands: "other" stands for start, help, history, stats and an unknown
\* command, which write nothing but the command history.
Commands == {"other", "clear", "search", "rec", "agent"}

\* commands.py 42-62: handle_command records the command, then runs it.  args is
\* whether the command came with arguments, ok the outcome of a chat call.
handle_command(db, u, id, command, args, ok) ==
    LET db1 == [db EXCEPT !.cmd_history = add_command(@, u, id, command)]
    IN CASE command = "clear" -> [db1 EXCEPT !.convo = clear_conversation(@, u)]
         [] command = "search" ->
               IF args THEN search_and_respond(db1, u, id, ok) ELSE db1
         [] command = "rec" -> [db1 EXCEPT !.mode = set_user_mode(@, u, "rec")]
         [] command = "agent" -> [db1 EXCEPT !.mode = set_user_mode(@, u, "agent")]
         [] OTHER -> db1

\* The tables become db.
Store(db) ==
    /\ mode' = db.mode
    /\ convo' = db.convo
    /\ cmd_history' = db.cmd_history
    /\ chat_calls' = db.chat_calls

\* update.message.reply_text: one more reply to the user's update `id`.
Reply(id, kind) == [msg |-> id, kind |-> kind]
reply_text(rs, u, id, kind) == [rs EXCEPT ![u] = Append(@, Reply(id, kind))]

\* The record of a message answered in the mode read for it.
Answer(u, kind, md, id) ==
    [user |-> u, kind |-> kind, switched |-> switched[u], mode |-> md, msg |-> id]

\* An update of user u is taken from the platform and handed to its handler;
\* it is the user's update number seen'[u].
Take1(u) ==
    /\ updates < MaxUpdates
    /\ updates' = updates + 1
    /\ seen' = [seen EXCEPT ![u] = @ + 1]

\* bot.py 34-80: a command handler runs handle_command and replies.
Command(u, command, args, ok) ==
    /\ Store(handle_command(Db, u, seen'[u], command, args, ok))
    /\ switched' = IF command \in {"rec", "agent"}
                   THEN [switched EXCEPT ![u] = command] ELSE switched
    /\ replies' = reply_text(replies, u, seen'[u], "response")

\* bot.py 34-44: /start calls add_user, then handle_command('start').
StartCmd(u) ==
    /\ Take1(u)
    /\ Store(handle_command([Db EXCEPT !.mode = add_user(@, u)],
                            u, seen'[u], "other", FALSE, TRUE))
    /\ replies' = reply_text(replies, u, seen'[u], "response")
    /\ UNCHANGED <<switched, waiting, handled, stage, utter>>
    /\ UNCHANGED <<pipeVars, textVars, bootVars>>

\* bot.py 46-49, 62-70: /help, /history, /stats
OtherCmd(u) ==
    /\ Take1(u)
    /\ Command(u, "other", FALSE, TRUE)
    /\ UNCHANGED <<waiting, handled, stage, utter>>
    /\ UNCHANGED <<pipeVars, textVars, bootVars>>

\* bot.py 51-54: /clear
ClearCmd(u) ==
    /\ Take1(u)
    /\ Command(u, "clear", FALSE, TRUE)
    /\ UNCHANGED <<waiting, handled, stage, utter>>
    /\ UNCHANGED <<pipeVars, textVars, bootVars>>

\* bot.py 56-60: /search, with or without a query
SearchCmd(u) ==
    /\ Take1(u)
    /\ \E args \in BOOLEAN, ok \in BOOLEAN : Command(u, "search", args, ok)
    /\ UNCHANGED <<waiting, handled, stage, utter>>
    /\ UNCHANGED <<pipeVars, textVars, bootVars>>

\* bot.py 72-75, commands.py 136-142: /rec
RecCmd(u) ==
    /\ Take1(u)
    /\ Command(u, "rec", FALSE, TRUE)
    /\ UNCHANGED <<waiting, handled, stage, utter>>
    /\ UNCHANGED <<pipeVars, textVars, bootVars>>

\* bot.py 77-80, commands.py 144-150: /agent
AgentCmd(u) ==
    /\ Take1(u)
    /\ Command(u, "agent", FALSE, TRUE)
    /\ UNCHANGED <<waiting, handled, stage, utter>>
    /\ UNCHANGED <<pipeVars, textVars, bootVars>>

\* bot.py 202-241: handle_text calls add_user; a text that parse_command takes
\* for help, clear, search, history or stats runs that command, any other text
\* is answered in the mode read from the table: by the chat service in agent
\* mode, by a fixed notice in rec mode.
TextMsg(u) ==
    /\ Take1(u)
    /\ LET db == [Db EXCEPT !.mode = add_user(@, u)]
           user_mode == get_user_mode(db.mode, u)
       IN \E command \in {"none", "other", "clear", "search"},
             args \in BOOLEAN, ok \in BOOLEAN :
             IF command # "none"
             THEN /\ Store(handle_command(db, u, seen'[u], command, args, ok))
                  /\ replies' = reply_text(replies, u, seen'[u], "response")
                  /\ UNCHANGED handled
             ELSE /\ handled' = handled \cup {Answer(u, "text", user_mode, seen'[u])}
                  /\ IF user_mode = "agent"
                     THEN /\ Store(IF args
                                   THEN search_and_respond(db, u, seen'[u], ok)
                                   ELSE get_response(db, u, seen'[u], ok))
                          /\ replies' = reply_text(replies, u, seen'[u], "response")
                     ELSE /\ Store(db)
                          /\ replies' = reply_text(replies, u, seen'[u], "notice")
    /\ UNCHANGED <<switched, waiting, stage, utter>>
    /\ UNCHANGED <<pipeVars, textVars, bootVars>>

\* bot.py 82-103, 139-166: handle_voice / handle_audio call add_user and are
\* suspended at their awaits (send_chat_action, get_file,
\* download_and_transcribe); an audio of an unsupported format is refused.
VoiceStart(u) ==
    /\ Take1(u)
    /\ waiting[u] = "none"
    /\ mode' = add_user(mode, u)
    /\ \E kind \in {"voice", "audio", "none"} :
          /\ waiting' = [waiting EXCEPT ![u] = kind]
          /\ IF kind = "none"
             THEN /\ replies' = reply_text(replies, u, seen'[u], "unsupported")
                  /\ UNCHANGED <<stage, utter>>
             ELSE /\ stage' = [stage EXCEPT ![u] = "transcribe"]
                  /\ utter' = [utter EXCEPT ![u] = seen'[u]]
                  /\ UNCHANGED replies
    /\ UNCHANGED <<switched, handled, convo, cmd_history, chat_calls>>
    /\ UNCHANGED <<pipeVars, textVars, bootVars>>

\* The handler of u's voice or audio message has returned.
VoiceDone(u) ==
    /\ waiting' = [waiting EXCEPT ![u] = "none"]
    /\ stage' = [stage EXCEPT ![u] = "idle"]
    /\ utter' = [utter EXCEPT ![u] = 0]

\* A rec mode that also logs the transcript.
RecReply_logged(u, id) ==
    /\ replies' = reply_text(replies, u, id, "transcript")
    /\ convo' = add_message(convo, u, "user", Said(id), "voice")
    /\ UNCHANGED <<mode, cmd_history, chat_calls>>

\* bot.py 109-111, 172-174: rec mode, the transcript is the reply.
RecReply(u, id) ==
    /\ replies' = reply_text(replies, u, id, "transcript")
    /\ UNCHANGED <<mode, convo, cmd_history, chat_calls>>

\* bot.py 105-114, 128-131, 168-177, 191-194: download_and_transcribe has
\* returned.  Without a transcript the handler apologises.  With one it reads
\* the mode: in rec mode it replies with the transcript and returns, in agent
\* mode it replies with "Transcribed: ..." and is suspended in that reply.
VoiceFinish(u) ==
    /\ stage[u] = "transcribe"
    /\ \E transcribed \in BOOLEAN :
          IF ~transcribed
          THEN /\ replies' = reply_text(replies, u, utter[u], "apology")
               /\ VoiceDone(u)
               /\ UNCHANGED <<mode, convo, cmd_history, chat_calls, handled>>
          ELSE LET user_mode == get_user_mode(mode, u) IN
               /\ handled' = handled \cup {Answer(u, waiting[u], user_mode, utter[u])}
               /\ IF user_mode = "rec"
                  THEN /\ RecReply(u, utter[u])
                       /\ VoiceDone(u)
                  ELSE /\ replies' = reply_text(replies, u, utter[u], "transcribed")
                       /\ stage' = [stage EXCEPT ![u] = "log"]
                       /\ UNCHANGED <<mode, convo, cmd_history, chat_calls,
                                      waiting, utter>>
    /\ UNCHANGED <<switched, updates, seen>>
    /\ UNCHANGED <<pipeVars, textVars, bootVars>>

\* bot.py 116-125, 179-188: agent mode, after the first reply: the transcript is
\* logged as a user message of type voice and goes through parse_command.  A
\* command is run and answered; for any other transcript the handler is
\* suspended in send_chat_action.
VoiceLog(u) ==
    /\ stage[u] = "log"
    /\ LET db == [Db EXCEPT !.convo =
                     add_message(@, u, "user", Said(utter[u]), "voice")]
       IN \E command \in {"none"} \cup Commands, args \in BOOLEAN, ok \in BOOLEAN :
             IF command = "none"
             THEN /\ Store(db)
                  /\ stage' = [stage EXCEPT ![u] = "chat"]
                  /\ UNCHANGED <<replies, switched, waiting, utter>>
             ELSE /\ Store(handle_command(db, u, utter[u], command, args, ok))
                  /\ switched' = IF command \in {"rec", "agent"}
                                 THEN [switched EXCEPT ![u] = command] ELSE switched
                  /\ replies' = reply_text(replies, u, utter[u], "response")
                  /\ VoiceDone(u)
    /\ UNCHANGED <<handled, updates, seen>>
    /\ UNCHANGED <<pipeVars, textVars, bootVars>>

\* bot.py 125-127, 188-190: get_response on the transcript, then the reply.
VoiceRespond(u) ==
    /\ stage[u] = "chat"
    /\ \E ok \in BOOLEAN : Store(get_response(Db, u, utter[u], ok))
    /\ replies' = reply_text(replies, u, utter[u], "response")
    /\ VoiceDone(u)
    /\ UNCHANGED <<switched, handled, updates, seen>>
    /\ UNCHANGED <<pipeVars, textVars, bootVars>>

InitBot == PipeIdle /\ TextIdle /\ BootDone /\ BotIdle

NextBot ==
    \E u \in Users :
       \/ StartCmd(u)
       \/ OtherCmd(u)
       \/ ClearCmd(u)
       \/ SearchCmd(u)
       \/ RecCmd(u)
       \/ AgentCmd(u)
       \/ TextMsg(u)
       \/ VoiceStart(u)
       \/ VoiceFinish(u)
       \/ VoiceLog(u)
       \/ VoiceRespond(u)

SpecBot == InitBot /\ [][NextBot]_vars

----------------------------------------------------------------------------
(* Properties of the audio pipeline *)

Ceiling == MAX_AUDIO_SIZE_MB * BYTES_PER_MB
CeilDiv(a, b) == (a + b - 1) \div b

\* transcribe_audio has decided its result and is about to run its finally clause.
AtExit(m) == pc[m] = "t_finally"
\* transcribe_audio has returned to download_and_transcribe.
Returned(m) == pc[m] \in {"t_ret", "t_raised"}
HasWorking(m) == processed_path[m] # NoPath /\ Exists(fs, processed_path[m])
Working(m) == fs[processed_path[m]]
ChunkNames(p) == {<<"chunk_", OrdStr(k)>> \o p : k \in 0..MaxWindows}
DerivedNames(m) ==
    {<<"processed_">> \o temp_path(m)}
       \cup ChunkNames(temp_path(m)) \cup ChunkNames(<<"processed_">> \o temp_path(m))
NoChunkOversized(m) ==
    \A k \in 1..Len(chunk_files[m]) :
       Exists(fs, chunk_files[m][k]) /\ fs[chunk_files[m][k]].size <= Ceiling
\* t is the texts ts joined by single spaces.
SpaceJoined(t, ts) ==
    /\ Len(ts) > 0
    /\ Len(t) = 2 * Len(ts) - 1
    /\ \A k \in 1..Len(t) :
          t[k] = IF k % 2 = 1 THEN ts[(k + 1) \div 2] ELSE Space

\* C1: after transcribe_audio returns, on any exit path, no derived file
\* (processed_<name>, chunk_<i>_<name>) of the call remains in the temp area and
\* the input file is still there (deletions that themselves fail set aside).
C1_NoDerivedFileRemains ==
    \A m \in Msgs :
       Returned(m) /\ "remove" \notin faults[m]
          => /\ DerivedNames(m) \cap DOMAIN fs = {}
             /\ Exists(fs, temp_path(m))

\* C2: an oversized working asset is split into ceil(duration / 300000) chunks,
\* chunk k (from 0) named by ordinal k and holding [k*300000, (k+1)*300000), the
\* last one possibly shorter; the remote calls are one per chunk in ascending
\* order and the result is their texts joined by single spaces in that order.
C2_ChunkedTranscription ==
    \A m \in Msgs :
       /\ \A j, k \in 1..Len(calls[m]) :
             j < k /\ HasWorking(m) /\ Working(m).size > Ceiling
                => calls[m][j].content.lo < calls[m][k].content.lo
       /\ AtExit(m) /\ HasWorking(m) /\ Working(m).size > Ceiling
             /\ faults[m] \cap {"split", "open", "remote", "getsize"} = {}
             /\ NoChunkOversized(m)
          => LET n == CeilDiv(Duration(Working(m)), CHUNK_DURATION_MS)
                 chunk(k) == fs[chunk_files[m][k]]
             IN /\ Len(chunk_files[m]) = n
                /\ \A k \in 1..n :
                      /\ chunk_files[m][k] =
                            <<"chunk_", OrdStr(k - 1)>> \o processed_path[m]
                      /\ chunk(k).audio = Working(m).audio
                      /\ chunk(k).lo = (k - 1) * CHUNK_DURATION_MS
                      /\ chunk(k).hi = Min(k * CHUNK_DURATION_MS, Working(m).hi)
                      /\ k < n => Duration(chunk(k)) = CHUNK_DURATION_MS
                /\ Len(calls[m]) = n
                /\ \A k \in 1..n :
                      calls[m][k] = [path |-> chunk_files[m][k], content |-> chunk(k)]
                /\ IF n = 0 THEN result[m] = None
                   ELSE /\ ~result[m].isNone
                        /\ SpaceJoined(result[m].text, [k \in 1..n |-> Token(chunk(k))])

\* C2 witness: four chunks, the last one shorter than the window, all transcribed.
C2_Witness ==
    \E m \in Msgs :
       /\ AtExit(m) /\ HasWorking(m) /\ Working(m).size > Ceiling
       /\ faults[m] \cap {"split", "open", "remote", "getsize"} = {}
       /\ NoChunkOversized(m)
       /\ Len(chunk_files[m]) >= 3
       /\ Duration(Working(m)) % CHUNK_DURATION_MS # 0
       /\ Len(calls[m]) = Len(chunk_files[m])
       /\ ~result[m].isNone

\* C3: when the remote call of one interior chunk fails and nothing else does,
\* every later chunk is still sent and the result is the space-joined texts of
\* the other chunks in ordinal order.
C3_InteriorFailureTolerated ==
    \A m \in Msgs :
       AtExit(m) /\ HasWorking(m) /\ Working(m).size > Ceiling
          /\ faults[m] \cap {"split", "open", "getsize"} = {}
          /\ "remote" \in faults[m]
          /\ NoChunkOversized(m)
          /\ Len(chunk_files[m]) >= 3
          /\ (\E k \in 2..(Len(chunk_files[m]) - 1) :
                /\ Len(calls[m]) >= k
                /\ calls[m][k].path = chunk_files[m][k]
                /\ \A j \in 1..Len(transcriptions[m]) :
                      transcriptions[m][j] # Token(fs[chunk_files[m][k]]))
       => /\ Len(calls[m]) = Len(chunk_files[m])
          /\ ~result[m].isNone
          /\ SpaceJoined(result[m].text, transcriptions[m])
          /\ Len(transcriptions[m]) = Len(chunk_files[m]) - 1

\* C4: a working asset of at most 25MB is never decomposed and gets exactly one
\* remote call, on the whole asset, whose text is the result; a working asset
\* over 25MB never gets a whole-asset call.
C4_SizeCheck ==
    \A m \in Msgs :
       HasWorking(m)
          /\ pc[m] \in {"t_split", "t_loop", "t_direct", "t_call", "t_except", "t_finally"}
       => IF Working(m).size <= Ceiling
          THEN /\ pc[m] \notin {"t_split", "t_loop"}
               /\ chunk_files[m] = <<>>
               /\ \A k \in 1..Len(calls[m]) :
                     k = 1 /\ calls[m][k] = [path |-> processed_path[m],
                                             content |-> Working(m)]
               /\ AtExit(m) /\ faults[m] \cap {"open", "remote", "getsize"} = {}
                     => /\ Len(calls[m]) = 1
                        /\ result[m] = Some(<<Token(Working(m))>>)
          ELSE /\ pc[m] # "t_direct"
               /\ \A k \in 1..Len(calls[m]) : calls[m][k].path # processed_path[m]

\* C4 witness: a working asset of exactly 25MB transcribed by one call.
C4_Witness ==
    \E m \in Msgs :
       /\ AtExit(m) /\ HasWorking(m) /\ Working(m).size = Ceiling
       /\ Len(calls[m]) = 1 /\ ~result[m].isNone

\* The files a call on input name n derives, and whether two messages' names meet.
DerivedOf(n) ==
    {<<"processed_">> \o n} \cup ChunkNames(n) \cup ChunkNames(<<"processed_">> \o n)
NamesCollide ==
    \E m, q \in Msgs : m # q /\ fname[q] \in {fname[m]} \cup DerivedOf(fname[m])

\* Message m's temporary files were left alone by the other handlers: its
\* downloaded input is in place with its own audio from the download until
\* download_and_transcribe removes it, every remote call sent its own audio, and
\* its result is a text of its own audio.
Isolated(m) ==
    /\ pc[m] \in {"dl_ready", "t_start", "t_size", "t_split", "t_loop", "t_direct",
                  "t_call", "t_except", "t_finally", "t_ret", "t_raised"}
          => Exists(fs, temp_path(m)) /\ fs[temp_path(m)] = origAudio[m]
    /\ "getsize" \notin faults[m]
    /\ \A k \in 1..Len(calls[m]) : calls[m][k].content.audio = m
    /\ \A k \in 1..Len(result[m].text) : result[m].text[k].audio \in {m, " "}

\* C5 as stated: two transcriptions in flight never touch each other's temporary
\* files, whatever file names the two messages carry.
C5_IsolationAnyNames == \A m \in Msgs : Isolated(m)

\* C5 as amended: the same, for two messages whose file names are different and
\* neither of which is a name the other's call derives (processed_<n>,
\* chunk_<i>_<n>, chunk_<i>_processed_<n>).
C5_IsolationDistinctNames == ~NamesCollide => \A m \in Msgs : Isolated(m)

\* C5 witness: with distinct names, one message has been transcribed while the
\* other's downloaded input was waiting in the temp area.
C5_Witness ==
    /\ ~NamesCollide
    /\ pc["m1"] = "t_ret" /\ ~result["m1"].isNone
    /\ pc["m2"] = "dl_ready"

\* C6: no exception leaves transcribe_audio; it returns a text or None whatever
\* fails inside it.
C6_NoExceptionEscapes ==
    \A m \in Msgs :
       /\ pc[m] # "t_raised"
       /\ ~escaped[m]
       /\ pc[m] = "t_ret" => result[m] = None \/ (~result[m].isNone /\ result[m].text # <<>>)

\* C6 witness: a call in which a remote call and a deletion both failed has
\* returned None.
C6_Witness ==
    \E m \in Msgs :
       pc[m] = "t_ret" /\ {"remote", "remove"} \subseteq faults[m] /\ result[m] = None

\* C7: when decomposition of an oversized asset yields no chunk (the split
\* failed, or the audio has zero duration), the result is None and no remote
\* call is made.
C7_NoChunksGivesNone ==
    \A m \in Msgs :
       HasWorking(m) /\ Working(m).size > Ceiling
          /\ pc[m] \in {"t_loop", "t_call", "t_except", "t_finally"}
          /\ ("split" \in faults[m] \/ Duration(Working(m)) = 0)
       => /\ pc[m] = "t_finally"
          /\ chunk_files[m] = <<>>
          /\ result[m] = None
          /\ calls[m] = <<>>

\* C7 witness: a split that failed after it had exported a chunk.
C7_Witness ==
    \E m \in Msgs :
       /\ AtExit(m) /\ HasWorking(m) /\ Working(m).size > Ceiling
       /\ "split" \in faults[m]
       /\ ChunkNames(processed_path[m]) \cap DOMAIN fs # {}
       /\ Duration(Working(m)) > CHUNK_DURATION_MS
       /\ result[m] = None

\* C8: after a failed compaction the call goes on with the original input as
\* the working asset: the size check and every remote call are on the original
\* or on chunks of it.
C8_DegradedPath ==
    \A m \in Msgs :
       "preprocess" \in faults[m] /\ ~Returned(m)
       => /\ processed_path[m] = temp_path(m)
          /\ pc[m] # "t_except" \/ faults[m] # {"preprocess"}
          /\ \A k \in 1..Len(calls[m]) :
                /\ calls[m][k].path \in {temp_path(m)} \cup ChunkNames(temp_path(m))
                /\ calls[m][k].content.audio = origAudio[m].audio
          /\ AtExit(m) /\ faults[m] = {"preprocess"}
                => IF origAudio[m].size <= Ceiling
                   THEN /\ calls[m] = <<[path |-> temp_path(m), content |-> origAudio[m]]>>
                        /\ result[m] = Some(<<Token(origAudio[m])>>)
                   ELSE /\ Len(chunk_files[m])
                              = CeilDiv(Duration(origAudio[m]), CHUNK_DURATION_MS)
                        /\ \A k \in 1..Len(chunk_files[m]) :
                              chunk_files[m][k] \in ChunkNames(temp_path(m))

\* C8 witness: both continuations after a failed compaction.
C8_Witness ==
    \E m \in Msgs :
       /\ AtExit(m) /\ faults[m] = {"preprocess"}
       /\ origAudio[m].size > Ceiling
       /\ Len(calls[m]) >= 2
       /\ ~result[m].isNone

\* C9: transcribe_audio leaves the input file in place with its content
\* unchanged, on every path.
C9_InputUntouched ==
    \A m \in Msgs :
       pc[m] \in {"t_start", "t_size", "t_split", "t_loop", "t_direct", "t_call",
                  "t_except", "t_finally", "t_ret", "t_raised"}
       => /\ Exists(fs, temp_path(m))
          /\ fs[temp_path(m)] = origAudio[m]

\* C9 witness: a call on the degraded path, where the working asset is the
\* input itself, has returned.
C9_Witness ==
    \E m \in Msgs :
       /\ pc[m] = "t_ret" /\ "preprocess" \in faults[m]
       /\ processed_path[m] = temp_path(m)
       /\ Exists(fs, temp_path(m))


----------------------------------------------------------------------------
(* Properties of split_text *)

\* C10: every part split_text returns has at most max_text_length (4000)
\* characters, for every input text.
C10_PartsBounded ==
    \A k \in 1..Len(parts) : TLen(parts[k]) <= max_text_length

\* C10 witness: a long text returned as three or more parts, one of them of
\* exactly max_text_length characters.
C10_Witness ==
    /\ tpc = "done"
    /\ TLen(text) > max_text_length
    /\ Len(parts) >= 3
    /\ \E k \in 1..Len(parts) : TLen(parts[k]) = max_text_length

\* C17: preprocess_audio escalates at most once.  A compaction makes one or two
\* passes; it makes a second one exactly when the first was in normal mode and
\* exported more than 18MB; the second pass is in aggressive mode and is the
\* last whatever it exports; a first pass in aggressive mode is the only one.
C17_EscalatesAtMostOnce ==
    \A m \in Msgs :
       LET ps == passes[m] IN
       /\ Len(ps) <= 2
       /\ pc[m] = "t_size" => Len(ps) >= 1
       /\ Len(ps) >= 1 =>
             /\ Len(ps) = 2 <=> /\ ~ps[1].aggressive
                                /\ ps[1].ok
                                /\ ps[1].size > ESCALATE_MB * BYTES_PER_MB
             /\ ps[1].aggressive => Len(ps) = 1
       /\ Len(ps) = 2 => ps[2].aggressive

\* C17 witness: the aggressive retry itself exported more than 18MB and the
\* compaction returned after it.
C17_Witness ==
    \E m \in Msgs :
       /\ pc[m] = "t_size"
       /\ Len(passes[m]) = 2
       /\ passes[m][2].ok
       /\ passes[m][2].size > ESCALATE_MB * BYTES_PER_MB

\* C21: the first pass of the compaction of transcribe_audio is in aggressive
\* mode exactly when the original input file is larger than 50MB, and in normal
\* mode otherwise; a call that got past the size of its input made that pass.
C21_FirstPassMode ==
    \A m \in Msgs :
       /\ pc[m] \in {"t_size", "t_split", "t_direct", "t_loop", "t_call"}
             => Len(passes[m]) >= 1
       /\ Len(passes[m]) >= 1
             => (passes[m][1].aggressive
                    <=> origAudio[m].size > LARGE_FILE_MB * BYTES_PER_MB)

\* C21 witness: an input of exactly 50MB was compacted in normal mode first and,
\* its output over 18MB, a second time in aggressive mode.
C21_Witness ==
    \E m \in Msgs :
       /\ pc[m] = "t_size"
       /\ origAudio[m].size = LARGE_FILE_MB * BYTES_PER_MB
       /\ Len(passes[m]) = 2
       /\ ~passes[m][1].aggressive /\ passes[m][1].ok

\* download_and_transcribe has returned for message m.
Handled(m) == pc[m] = "handled"

\* C27: after download_and_transcribe returns, whether with a text, with None or
\* after a download error, the temp area holds no file created for the message:
\* neither the downloaded input nor a file derived from it (deletions that
\* themselves fail set aside).
C27_NoFileLeftForMessage ==
    \A m \in Msgs :
       Handled(m) /\ "remove" \notin faults[m]
          => ({temp_path(m)} \cup DerivedNames(m)) \cap DOMAIN fs = {}

\* The call is on the chunked path and nothing but chunk sizes went wrong.
ChunkedNoFault(m) ==
    /\ AtExit(m) /\ HasWorking(m) /\ Working(m).size > Ceiling
    /\ faults[m] \cap {"split", "open", "remote", "getsize"} = {}
    /\ \A k \in 1..Len(chunk_files[m]) : Exists(fs, chunk_files[m][k])

\* The chunks of the call that fit under the ceiling, in ordinal order.
Sendable(m) ==
    LET Fits(p) == fs[p].size <= Ceiling
    IN SelectSeq(chunk_files[m], Fits)

\* C18: nothing larger than 25MB is ever sent to the remote service, and an
\* oversized chunk does not fail the call: the calls are exactly the other
\* chunks, in ordinal order, and the result is their texts joined by spaces.
C18_OversizedChunkSkipped ==
    \A m \in Msgs :
       /\ \A k \in 1..Len(calls[m]) : calls[m][k].content.size <= Ceiling
       /\ ChunkedNoFault(m)
          => LET sendable == Sendable(m) IN
             /\ Len(calls[m]) = Len(sendable)
             /\ \A k \in 1..Len(sendable) : calls[m][k] = Sent(sendable[k], fs)
             /\ sendable # <<>>
                => /\ ~result[m].isNone
                   /\ SpaceJoined(result[m].text,
                                  [k \in 1..Len(sendable) |-> Token(fs[sendable[k]])])

\* C18 witness: the middle one of three or more chunks was oversized and the
\* others were transcribed.
C18_Witness ==
    \E m \in Msgs :
       /\ ChunkedNoFault(m)
       /\ Len(chunk_files[m]) >= 3
       /\ fs[chunk_files[m][2]].size > Ceiling
       /\ Len(calls[m]) = Len(chunk_files[m]) - 1
       /\ ~result[m].isNone

\* C19: on the chunked path the result is None whenever no chunk produced a
\* text, and a result that is not None is the join of the texts of one or more
\* chunks, each the text of a call that was made.
C19_NoTextGivesNone ==
    \A m \in Msgs :
       AtExit(m) /\ HasWorking(m) /\ Working(m).size > Ceiling
       => /\ transcriptions[m] = <<>> => result[m] = None
          /\ ~result[m].isNone
                => /\ transcriptions[m] # <<>>
                   /\ SpaceJoined(result[m].text, transcriptions[m])
                   /\ Len(calls[m]) = Len(transcriptions[m])
                   /\ \A k \in 1..Len(calls[m]) :
                         transcriptions[m][k] = Token(calls[m][k].content)

\* C19 witness: every chunk of a split was oversized, no call was made and
\* the result is None.
C19_Witness ==
    \E m \in Msgs :
       /\ ChunkedNoFault(m)
       /\ Len(chunk_files[m]) >= 2
       /\ \A k \in 1..Len(chunk_files[m]) : fs[chunk_files[m][k]].size > Ceiling
       /\ calls[m] = <<>>
       /\ result[m] = None

\* A step of message q's handler outside transcribe_audio: it starts, its
\* download completes or fails, or it is resumed after the download.
HandlerStep(q) == Arrive(q) \/ DownloadWrite(q) \/ DownloadError(q) \/ Resume(q)

\* C20: while the transcription of one message waits for the response of a
\* remote call, the handler of another message that is ready to start or to go
\* on can take its step.
C20_RemoteCallYields ==
    \A m, q \in Msgs :
       m # q /\ pc[m] = "t_call" /\ pc[q] \in {"new", "dl_wait", "dl_ready"}
          => ENABLED HandlerStep(q)

----------------------------------------------------------------------------
(* Properties of the bootstrap *)

\* The purge and its place in main: polling starts, and a handler runs, only
\* after cleanup_temp_files has returned; the purge leaves subdirectories alone
\* and removes nothing but what it reports.
PurgeOrdered ==
    /\ boot = "polling" => purged
    /\ \A m \in Msgs : pc[m] # "off" => purged /\ boot = "polling"
    /\ boot = "start" => ~purged /\ removed = {}
    /\ dirs \cap DOMAIN fs = {}

----------------------------------------------------------------------------
(* Properties of the modes *)

\* C16: once /agent has been handled for a user who has a row in the users
\* table, and no /rec after it, the user's stored mode is 'agent' and every
\* voice, audio and text message of the user is answered in agent mode.
C16_AgentModePersists ==
    /\ \A u \in Users : switched[u] = "agent" /\ mode[u] # NoRow => mode[u] = "agent"
    /\ \A h \in handled : h.switched = "agent" => h.mode = "agent"

\* The number of elements of the sequence q that satisfy Test.
Count(q, Test(_)) == Len(SelectSeq(q, Test))

\* The voice and audio messages answered in mode md.
VoiceAnswers(md) == {h \in handled : h.kind \in {"voice", "audio"} /\ h.mode = md}

\* The answered message h was run as a command: handle_command recorded it.
IsCommand(h) == \E k \in 1..Len(cmd_history[h.user]) : cmd_history[h.user][k].msg = h.msg

\* C26: a voice or audio message answered in agent mode that is not a command is
\* in the user's conversation log exactly once, as a user row, when the reply of
\* the chat service is logged, and exactly once in the messages sent to the chat
\* service for it.
C26_UtteranceLoggedOnce ==
    \A h \in {a \in VoiceAnswers("agent") : ~IsCommand(a)} :
       LET IsUtterance(e) == e.role = "user" /\ e.content = Said(h.msg)
           IsReply(e) == e.role = "assistant" /\ e.content = ReplyTo(h.msg)
           log == convo[h.user]
           sent == chat_calls[h.user]
       IN /\ \A c \in 1..Len(sent) :
                sent[c].msg = h.msg => Count(sent[c].messages, IsUtterance) = 1
          /\ \A k \in 1..Len(log) :
                IsReply(log[k]) => Count(SubSeq(log, 1, k - 1), IsUtterance) = 1

\* The step in which the handler of u's voice or audio message, holding a
\* transcript, reads the mode 'rec' and returns.
RecAnswered(u) ==
    /\ stage[u] = "transcribe" /\ stage'[u] = "idle"
    /\ \E h \in handled' \ handled : h.user = u /\ h.mode = "rec"

\* C28: a voice or audio message with a transcript, handled in rec mode, gets
\* exactly one reply, the transcript itself; its handler makes no call of the
\* chat service and leaves the conversation log and the command history as they
\* were.
C28_RecModeFrame ==
    /\ [][\A u \in Users :
             RecAnswered(u)
                => /\ replies' = [replies EXCEPT
                                      ![u] = Append(@, Reply(utter[u], "transcript"))]
                   /\ chat_calls' = chat_calls
                   /\ convo' = convo
                   /\ cmd_history' = cmd_history]_vars
    /\ [](\A h \in VoiceAnswers("rec") :
             LET Mine(e) == e.msg = h.msg
                 Logged(e) == e.content.msg = h.msg
             IN /\ SelectSeq(replies[h.user], Mine) = <<Reply(h.msg, "transcript")>>
                /\ Count(chat_calls[h.user], Mine) = 0
                /\ Count(convo[h.user], Logged) = 0
                /\ Count(cmd_history[h.user], Mine) = 0)

\* C28 witness: a voice message was answered in rec mode for a user whose
\* conversation log and command history are not empty.
C28_Witness ==
    \E h \in VoiceAnswers("rec") :
       /\ convo[h.user] # <<>>
       /\ cmd_history[h.user] # <<>>
       /\ \E k \in 1..Len(replies[h.user]) :
             replies[h.user][k] = Reply(h.msg, "transcript")
       /\ stage[h.user] = "idle"

----------------------------------------------------------------------------
(* Properties of split_text, continued *)

\* The text t is the parts ps in order with whitespace, and nothing else, before,
\* between and after them.
RECURSIVE Reconstructs(_, _)
Reconstructs(t, ps) ==
    LET u == LStrip(t) IN
    IF ps = <<>> THEN u = <<>>
    ELSE /\ TLen(Head(ps)) <= TLen(u)
         /\ Take(u, TLen(Head(ps))) = Head(ps)
         /\ Reconstructs(Drop(u, TLen(Head(ps))), Tail(ps))

RECURSIVE SumLen(_)
SumLen(ps) == IF ps = <<>> THEN 0 ELSE TLen(Head(ps)) + SumLen(Tail(ps))

IsLong(t) == TLen(t) > max_text_length

\* C11: for a text longer than max_text_length the parts, in order, are the text
\* with only whitespace removed, and only at the part boundaries and the two
\* ends: no other character is dropped, duplicated or reordered.  During the
\* loop the same holds of the parts so far followed by the remaining text.
C11_ContentPreserved ==
    IsLong(text) /\ tpc \in {"loop", "done"}
       => Reconstructs(text, IF tpc = "done" THEN parts
                             ELSE Append(parts, Strip(remaining_text)))

\* C11 witness: a long text that neither starts nor ends with whitespace was
\* split at a run of spaces, which the parts no longer contain.
C11_Witness ==
    /\ tpc = "done" /\ IsLong(text)
    /\ ~IsSpace(text[1][1]) /\ ~IsSpace(text[Len(text)][1])
    /\ Len(parts) >= 2
    /\ SumLen(parts) < TLen(text)

\* C12: split_text terminates on every input: the split point is at least 1,
\* every pass of the loop that does not end it leaves a strictly shorter
\* remaining text, the function returns, and it returns at least one part for
\* a non-empty text.
C12_Terminates ==
    /\ [](tpc = "loop" /\ IsLong(remaining_text) => SplitPoint(remaining_text) >= 1)
    /\ [][tpc = "loop" /\ tpc' = "loop"
             => TLen(remaining_text') < TLen(remaining_text)]_vars
    /\ <>(tpc = "done")
    /\ [](tpc = "done" /\ text # <<>> => Len(parts) >= 1)

\* C12 witness: a call that went through the loop more than once has returned.
C12_Witness ==
    /\ tpc = "done" /\ IsLong(text)
    /\ Len(parts) >= 3

\* C13: a text of at most max_text_length characters is returned as exactly one
\* part, and that part is the text itself (so also equal to it after trimming).
C13_ShortTextWhole ==
    tpc = "done" /\ ~IsLong(text)
       => /\ Len(parts) = 1
          /\ parts[1] = text
          /\ Strip(parts[1]) = Strip(text)

\* C13 witness: a text of exactly max_text_length characters that starts with
\* whitespace has been returned.
C13_Witness ==
    /\ tpc = "done"
    /\ TLen(text) = max_text_length
    /\ IsSpace(text[1][1])
    /\ Len(parts) = 1

\* No sentence terminator and no whitespace in t.
IsPlain(t) ==
    \A k \in 1..Len(t) :
       ~IsSpace(t[k][1]) /\ \A j \in 1..Len(sentence_endings) : t[k][1] # sentence_endings[j]

\* C14: a text of L > max_text_length characters with no sentence terminator and
\* no whitespace is cut at every multiple of max_text_length: ceil(L / 4000)
\* parts, all but the last of exactly 4000 characters, the last one the rest.
C14_HardCuts ==
    tpc = "done" /\ IsLong(text) /\ IsPlain(text)
       => LET L == TLen(text)
              n == CeilDiv(L, max_text_length)
          IN /\ Len(parts) = n
             /\ \A k \in 1..(n - 1) : TLen(parts[k]) = max_text_length
             /\ TLen(parts[n]) = L - (n - 1) * max_text_length
             /\ Reconstructs(text, parts)

\* C14 witness: 8050 letters returned as parts of 4000, 4000 and 50.
C14_Witness ==
    /\ tpc = "done" /\ IsPlain(text)
    /\ TLen(text) = 2 * max_text_length + 50
    /\ Len(parts) = 3
    /\ TLen(parts[3]) = 50

\* The index, in the window w, of the last character of run j.
RunEnd(w, j) == TLen(SubSeq(w, 1, j)) - 1

\* The index of the last character of w that is one of cs, -1 if there is none.
LastOf(w, cs) ==
    LET ends == {RunEnd(w, j) : j \in {i \in 1..Len(w) : w[i][1] \in cs}}
    IN IF ends = {} THEN -1 ELSE CHOOSE e \in ends : \A o \in ends : o <= e

Terminators == {".", "!", "?"}

\* A pass of the loop has just split the remaining text: chunk_text is its
\* window, split_point its split point and the last part the part it emitted.
JustSplit == tpc = "loop" /\ parts # <<>>

\* The sentence rule applies to the window of the last pass.
SentenceRule == LastOf(chunk_text, Terminators) > max_text_length \div 2

LastPart == parts[Len(parts)]

\* C22: when the last sentence terminator of the window is at a position
\* greater than max_text_length / 2, the split point is the position right
\* after it and the part emitted is the window up to and including it (trimmed),
\* wherever the spaces of the window are.
C22_SentenceRuleFirst ==
    JustSplit /\ SentenceRule
       => /\ split_point = LastOf(chunk_text, Terminators) + 1
          /\ LastPart = Strip(Take(chunk_text, LastOf(chunk_text, Terminators) + 1))

\* C22 witness: the window has a space in its final 200 characters, after its
\* last terminator, and the split was made after the terminator.
C22_Witness ==
    /\ JustSplit /\ SentenceRule
    /\ LastOf(chunk_text, {" "}) > max_text_length - SPACE_MARGIN
    /\ LastOf(chunk_text, {" "}) > LastOf(chunk_text, Terminators)
    /\ split_point = LastOf(chunk_text, Terminators) + 1
    /\ split_point < LastOf(chunk_text, {" "})

\* The last space of the window is one of its final 200 characters.
SpaceInFinal200 == LastOf(chunk_text, {" "}) >= max_text_length - SPACE_MARGIN

\* C23 as stated: when the sentence rule does not apply, the split is at the last
\* space of the window if and only if that space is one of the final 200
\* characters of the window; otherwise it is a hard cut at max_text_length.
C23_SpaceInFinal200 ==
    JustSplit /\ ~SentenceRule
       => IF SpaceInFinal200
          THEN split_point = LastOf(chunk_text, {" "})
          ELSE split_point = max_text_length

\* C23 as amended: the same with the space at a position greater than
\* max_text_length - 200, one of the final 199 characters of the window; a last
\* space at position max_text_length - 200 exactly gives the hard cut.  The part
\* emitted is the window up to the split point, trimmed.
C23_SpaceInFinal199 ==
    JustSplit /\ ~SentenceRule
       => /\ IF LastOf(chunk_text, {" "}) > max_text_length - SPACE_MARGIN
             THEN split_point = LastOf(chunk_text, {" "})
             ELSE split_point = max_text_length
          /\ LastPart = Strip(Take(chunk_text, split_point))

\* C23 witness: a window without terminator whose last space is at position
\* max_text_length - 200 + 1 was split at that space.
C23_Witness ==
    /\ JustSplit /\ ~SentenceRule
    /\ LastOf(chunk_text, Terminators) = -1
    /\ LastOf(chunk_text, {" "}) = max_text_length - SPACE_MARGIN + 1
    /\ split_point = max_text_length - SPACE_MARGIN + 1

\* The text t neither starts nor ends with whitespace.
Trimmed(t) == t = <<>> \/ (~IsSpace(t[1][1]) /\ ~IsSpace(t[Len(t)][1]))

\* C24 as stated: every part returned has no leading and no trailing whitespace,
\* for an input of any length.
C24_EveryPartTrimmed ==
    tpc = "done" => \A k \in 1..Len(parts) : Trimmed(parts[k])

\* C24 as amended: every part returned for a text longer than max_text_length,
\* and every part emitted so far inside the loop, has no leading and no trailing
\* whitespace; a text of at most max_text_length is returned as it is, with the
\* whitespace it starts and ends with.
C24_LongTextPartsTrimmed ==
    /\ IsLong(text) => \A k \in 1..Len(parts) : Trimmed(parts[k])
    /\ tpc = "done" /\ ~IsLong(text) => parts = <<text>>

\* C24 witness: a long text that starts and ends with whitespace was returned
\* in two or more parts, none of them empty, that hold everything between.
C24_Witness ==
    /\ tpc = "done" /\ IsLong(text)
    /\ IsSpace(text[1][1]) /\ IsSpace(text[Len(text)][1])
    /\ Len(parts) >= 2
    /\ \A k \in 1..Len(parts) : parts[k] # <<>>
    /\ SumLen(parts) = TLen(text) - text[1][2] - text[Len(text)][2]

\* C25: for a text longer than max_text_length no part returned is the empty
\* string, also when the text starts with a long run of whitespace.
C25_NoEmptyPart ==
    tpc = "done" /\ IsLong(text) => \A k \in 1..Len(parts) : parts[k] # <<>>

============================================================================
